---- MODULE Spec2Model ----
(***************************************************************************)
(* A model of the CSS-transition disabler of ckeditor5-ui                  *)
(* (bindings/injectcsstransitiondisabler.ts): the runtime injector         *)
(* injectCssTransitionDisabler, the class mixin CssTransitionMixin, and    *)
(* the EasyImage glue plugin's init.                                       *)
(*                                                                         *)
(* The View base class (set, extendTemplate, bindTemplate.if, setTemplate, *)
(* render) and logWarning are not part of the sources at hand; they are    *)
(* modelled from the written specification (sections 4.3, 5 and 6).        *)
(***************************************************************************)
EXTENDS Naturals, Sequences, FiniteSets

\* ---------------------------------------------------------------- bounds

\* Longest class list a template holds before the disabler is applied.
MaxPrior == 2
\* Most calls of injectCssTransitionDisabler / initializeMixin on one view.
MaxCalls == 3
\* Most calls of EasyImage.init on the editor.
MaxInit == 2

\* ------------------------------------------------------------- constants

FlagName == "_isCssTransitionsDisabled"
ClassToken == "ck-transitions-disabled"
WarningId == "easy-image-image-feature-missing"

\* Class tokens a view author may put in the base template.
Tokens == {"a", "b"}
\* The plugins the registry may hold.
PluginNames == {"ImageBlockEditing", "ImageInlineEditing"}
\* The views of the model: a plain View that gets the injector, and an
\* instance of a CssTransitionMixin( View ) subclass.
ViewIds == {"injected", "mixed"}

VARIABLES views, plugins, warnings, initCalls

vars == <<views, plugins, warnings, initCalls>>

\* ----------------------------------------------------- template entries

\* A literal class token of a template's class list.
Literal(t) == [type |-> "text", attribute |-> "", value |-> t]

\* bindTemplate.if( attribute, valueIfTrue ): a binding rule, a value stored
\* in the template and evaluated by the render engine.
bindTemplateIf(attribute, valueIfTrue) ==
    [type |-> "if", attribute |-> attribute, value |-> valueIfTrue]

\* The rule both strategies install.
BindingRule == bindTemplateIf(FlagName, ClassToken)

RECURSIVE SeqsUpTo(_)
SeqsUpTo(n) ==
    IF n = 0 THEN {<<>>}
    ELSE LET shorter == SeqsUpTo(n - 1)
         IN  shorter \cup {Append(s, Literal(t)) : s \in shorter, t \in Tokens}

\* The class lists a base template may declare.
PriorClasses == SeqsUpTo(MaxPrior)

Has(seq, x) == \E i \in 1..Len(seq) : seq[i] = x

NoTemplate == [defined |-> FALSE, class |-> <<>>, tabindex |-> <<>>]

\* ---------------------------------------------------------------- views

\* new View(): no flag, no control methods, no template.
NewView ==
    [kind |-> "View", template |-> NoTemplate,
     declared |-> "absent", flag |-> FALSE, methods |-> FALSE,
     calls |-> 0, failed |-> 0, thrown |-> "none", toggled |-> FALSE,
     rendered |-> FALSE, pending |-> FALSE, dom |-> <<>>]

\* new ( CssTransitionMixin( View ) )(): the flag is a class field
\* initialised to false, the control methods and initializeMixin come with
\* the prototype; initializeMixin is not called.
NewMixin ==
    [NewView EXCEPT !.kind = "Mixin", !.declared = "field",
                    !.flag = FALSE, !.methods = TRUE]

\* view.set( name, value ): declares the observable property and gives it
\* the value.
set(view, value) ==
    [view EXCEPT !.declared = "observable", !.flag = value,
                 !.pending = view.rendered]

\* A plain assignment to the flag. A write to an observable property is
\* propagated to the render engine; a write to a plain field is not.
Assign(view, value) ==
    [view EXCEPT !.flag = value,
                 !.declared = IF @ = "absent" THEN "field" ELSE @,
                 !.pending = @ \/ (view.declared = "observable" /\ view.rendered)]

\* Reading a property of the view: a property that does not exist is falsy.
Read(view, attribute) ==
    attribute = FlagName /\ view.declared # "absent" /\ view.flag

\* extendTemplate needs a template to merge into.
CanExtendTemplate(view) == view.template.defined

\* view.extendTemplate( { attributes: { class: entries } } ): appends the
\* entries to the class list of the template.
extendTemplate(view, entries) ==
    [view EXCEPT !.template.class = @ \o entries]

\* view.setTemplate( { attributes: { class: classes, tabindex: -1 } } )
setTemplate(view, classes) ==
    [view EXCEPT !.template =
        [defined |-> TRUE, class |-> classes, tabindex |-> <<Literal("-1")>>]]

\* ------------------------------------------------------- the disabler

\* A slip: the disabling closure writes false.
disable_writesFalse(view) == Assign(view, FALSE)

decorated_disableCssTransitions(view) == Assign(view, TRUE)

decorated_enableCssTransitions(view) == Assign(view, FALSE)

Mixin_disableCssTransitions(view) == Assign(view, TRUE)

\* A slip: the enabling method is a copy of the disabling one.
enable_copyOfDisable(view) == Assign(view, TRUE)

Mixin_enableCssTransitions(view) == Assign(view, FALSE)

disableCssTransitions(view) ==
    [(IF view.kind = "Mixin" THEN Mixin_disableCssTransitions(view)
                             ELSE decorated_disableCssTransitions(view))
     EXCEPT !.toggled = TRUE]

enableCssTransitions(view) ==
    [(IF view.kind = "Mixin" THEN Mixin_enableCssTransitions(view)
                             ELSE decorated_enableCssTransitions(view))
     EXCEPT !.toggled = TRUE]

\* The call ends normally.
Returned(view) == [view EXCEPT !.calls = @ + 1, !.thrown = "none"]

\* The call ends with the exception raised by the named step.
Threw(view, step) ==
    [view EXCEPT !.calls = @ + 1, !.failed = @ + 1, !.thrown = step]

\* Slips of the injector, each a change a plausible bug would make.

\* The flag is declared true.
inject_declaresTrue(view) ==
    LET decorated == [set(view, TRUE) EXCEPT !.methods = TRUE]
    IN  IF CanExtendTemplate(decorated)
        THEN Returned(extendTemplate(decorated, <<BindingRule>>))
        ELSE Threw(decorated, "extendTemplate")

\* The template is set anew instead of extended.
inject_replacesTemplate(view) ==
    LET decorated == [set(view, FALSE) EXCEPT !.methods = TRUE]
    IN  IF CanExtendTemplate(decorated)
        THEN Returned([decorated EXCEPT !.template.class = <<BindingRule>>])
        ELSE Threw(decorated, "extendTemplate")

\* A view without a template is skipped silently.
inject_skipsBareView(view) ==
    LET decorated == [set(view, FALSE) EXCEPT !.methods = TRUE]
    IN  IF CanExtendTemplate(decorated)
        THEN Returned(extendTemplate(decorated, <<BindingRule>>))
        ELSE Returned(decorated)

\* The rule is bound to a misspelt property.
inject_bindsOtherName(view) ==
    LET decorated == [set(view, FALSE) EXCEPT !.methods = TRUE]
    IN  IF CanExtendTemplate(decorated)
        THEN Returned(extendTemplate(decorated,
                 <<bindTemplateIf("isCssTransitionsDisabled", ClassToken)>>))
        ELSE Threw(decorated, "extendTemplate")

\* A second injection leaves the template alone.
inject_oncePerView(view) ==
    LET decorated == [set(view, FALSE) EXCEPT !.methods = TRUE]
    IN  IF ~CanExtendTemplate(decorated) THEN Threw(decorated, "extendTemplate")
        ELSE IF Has(decorated.template.class, BindingRule) THEN Returned(decorated)
        ELSE Returned(extendTemplate(decorated, <<BindingRule>>))

\* The template is extended first, the flag and the methods after it.
inject_extendsFirst(view) ==
    IF CanExtendTemplate(view)
    THEN Returned(extendTemplate([set(view, FALSE) EXCEPT !.methods = TRUE],
                                 <<BindingRule>>))
    ELSE Threw(view, "extendTemplate")

\* injectCssTransitionDisabler( view ): declare the flag, assign the two
\* closures, extend the template.
injectCssTransitionDisabler(view) ==
    LET declaredView == set(view, FALSE)
        decorated == [declaredView EXCEPT !.methods = TRUE]
    IN  IF CanExtendTemplate(decorated)
        THEN Returned(extendTemplate(decorated, <<BindingRule>>))
        ELSE Threw(decorated, "extendTemplate")

\* Mixin.initializeMixin(): extend the template.
initializeMixin(view) ==
    IF CanExtendTemplate(view)
    THEN Returned(extendTemplate(view, <<BindingRule>>))
    ELSE Threw(view, "extendTemplate")

\* ---------------------------------------------------- the render engine

RECURSIVE Evaluate(_, _)
\* The class list the template yields for the view: a literal is kept, a
\* binding rule yields its value iff the bound property is truthy.
Evaluate(view, entries) ==
    IF entries = <<>> THEN <<>>
    ELSE LET e == Head(entries)
             here == IF e.type = "text" \/ Read(view, e.attribute)
                     THEN <<e.value>> ELSE <<>>
         IN  here \o Evaluate(view, Tail(entries))

ClassList(view) == Evaluate(view, view.template.class)

\* view.render(): the first render pass.
render(view) ==
    [view EXCEPT !.rendered = TRUE, !.pending = FALSE, !.dom = ClassList(view)]

\* A later pass of the engine: applies the propagated changes.
update(view) == [view EXCEPT !.pending = FALSE, !.dom = ClassList(view)]

\* Number of binding rules for the flag in the class list of the template.
Rules(view) ==
    Cardinality({i \in 1..Len(view.template.class) :
                    view.template.class[i] = BindingRule})

\* ------------------------------------------------------------ EasyImage

\* editor.plugins.has( name )
PluginsHas(name) == name \in plugins

\* logWarning( id, context )
logWarning(log, id, context) == Append(log, [id |-> id, context |-> context])

\* A slip: the warning is raised when either plugin is missing.
init_warnsIfEitherMissing(log) ==
    IF ~PluginsHas("ImageBlockEditing") \/ ~PluginsHas("ImageInlineEditing")
    THEN logWarning(log, WarningId, "editor")
    ELSE log

EasyImage_init(log) ==
    IF ~PluginsHas("ImageBlockEditing") /\ ~PluginsHas("ImageInlineEditing")
    THEN logWarning(log, WarningId, "editor")
    ELSE log

\* -------------------------------------------------------------- actions

\* The view constructed under the name v.
Construct(v) == IF v = "mixed" THEN NewMixin ELSE NewView

\* One view has been constructed, of either class, and nothing was called
\* on it. Views share no state, so one view at a time covers them all.
Init ==
    /\ \E v \in ViewIds : views = [w \in {v} |-> Construct(w)]
    /\ plugins \in SUBSET PluginNames
    /\ warnings = <<>>
    /\ initCalls = 0

EditorUnchanged == UNCHANGED <<plugins, warnings, initCalls>>

\* The view's constructor sets the base template (once).
SetTemplate(v, classes) ==
    /\ ~views[v].template.defined
    /\ views' = [views EXCEPT ![v] = setTemplate(@, classes)]
    /\ EditorUnchanged

\* injectCssTransitionDisabler( view ) on the plain view, before it is
\* rendered.
Inject(v) ==
    /\ views[v].kind = "View"
    /\ ~views[v].rendered
    /\ views[v].calls < MaxCalls
    /\ views' = [views EXCEPT ![v] = injectCssTransitionDisabler(@)]
    /\ EditorUnchanged

\* this.initializeMixin() on the mixin-composed view, before it is rendered.
InitializeMixin(v) ==
    /\ views[v].kind = "Mixin"
    /\ ~views[v].rendered
    /\ views[v].calls < MaxCalls
    /\ views' = [views EXCEPT ![v] = initializeMixin(@)]
    /\ EditorUnchanged

Disable(v) ==
    /\ views[v].methods
    /\ views' = [views EXCEPT ![v] = disableCssTransitions(@)]
    /\ EditorUnchanged

Enable(v) ==
    /\ views[v].methods
    /\ views' = [views EXCEPT ![v] = enableCssTransitions(@)]
    /\ EditorUnchanged

Render(v) ==
    /\ views[v].template.defined
    /\ ~views[v].rendered
    /\ views' = [views EXCEPT ![v] = render(@)]
    /\ EditorUnchanged

UpdatePass(v) ==
    /\ views[v].rendered
    /\ views[v].pending
    /\ views' = [views EXCEPT ![v] = update(@)]
    /\ EditorUnchanged

EasyImageInit ==
    /\ initCalls < MaxInit
    /\ warnings' = EasyImage_init(warnings)
    /\ initCalls' = initCalls + 1
    /\ UNCHANGED <<views, plugins>>

Next ==
    \/ \E v \in DOMAIN views, classes \in PriorClasses : SetTemplate(v, classes)
    \/ \E v \in DOMAIN views : Inject(v)
    \/ \E v \in DOMAIN views : InitializeMixin(v)
    \/ \E v \in DOMAIN views : Disable(v)
    \/ \E v \in DOMAIN views : Enable(v)
    \/ \E v \in DOMAIN views : Render(v)
    \/ \E v \in DOMAIN views : UpdatePass(v)
    \/ EasyImageInit

Spec == Init /\ [][Next]_vars

\* The render engine eventually runs its pending update pass.
SpecLive == Spec /\ \A v \in ViewIds : WF_vars(v \in DOMAIN views /\ UpdatePass(v))

\* ------------------------------------------------- two views side by side

\* Both views have been constructed; the editor plays no part.
PairInit ==
    /\ views = [v \in ViewIds |-> Construct(v)]
    /\ plugins = {}
    /\ warnings = <<>>
    /\ initCalls = 0

\* The same call is made on both views in one step.
Both(injectedAfter, mixedAfter) ==
    /\ views' = [views EXCEPT !["injected"] = injectedAfter,
                              !["mixed"] = mixedAfter]
    /\ EditorUnchanged

PairSetTemplate(classes) ==
    /\ \A v \in ViewIds : ~views[v].template.defined
    /\ Both(setTemplate(views["injected"], classes),
            setTemplate(views["mixed"], classes))

\* The injector on the plain view, initializeMixin on the mixin-composed one.
PairApply ==
    /\ \A v \in ViewIds : ~views[v].rendered /\ views[v].calls < MaxCalls
    /\ Both(injectCssTransitionDisabler(views["injected"]),
            initializeMixin(views["mixed"]))

PairDisable ==
    /\ \A v \in ViewIds : views[v].methods
    /\ Both(disableCssTransitions(views["injected"]),
            disableCssTransitions(views["mixed"]))

PairEnable ==
    /\ \A v \in ViewIds : views[v].methods
    /\ Both(enableCssTransitions(views["injected"]),
            enableCssTransitions(views["mixed"]))

PairRender ==
    /\ \A v \in ViewIds : views[v].template.defined /\ ~views[v].rendered
    /\ Both(render(views["injected"]), render(views["mixed"]))

PairNext ==
    \/ \E classes \in PriorClasses : PairSetTemplate(classes)
    \/ PairApply
    \/ PairDisable
    \/ PairEnable
    \/ PairRender
    \/ \E v \in ViewIds : UpdatePass(v)

SpecPair == PairInit /\ [][PairNext]_vars

TypeOK ==
    /\ \A v \in DOMAIN views : views[v].calls \in 0..MaxCalls
    /\ initCalls \in 0..MaxInit

\* --------------------------------------------------------------- claims

Flag(view) == Read(view, FlagName)

\* The class token is in the class list the template yields for the view.
Yields(view) == Has(ClassList(view), ClassToken)

\* The class token is in the rendered class list.
Shown(view) == Has(view.dom, ClassToken)

\* The disabler was applied to the view and the call returned.
Applied(view) == view.calls > view.failed

\* C1: on an injected or mixin-composed view, from any prior flag value,
\* disableCssTransitions leaves the flag true and enableCssTransitions
\* leaves it false, also when the call is repeated.
C1_ToggleSetsFlag ==
    [][\A v \in DOMAIN views :
          /\ Disable(v) => Flag(views'[v]) = TRUE
          /\ Enable(v) => Flag(views'[v]) = FALSE]_vars

C1_Witness ==
    \E v \in DOMAIN views :
        views[v].toggled /\ Flag(views[v]) /\ Applied(views[v])

\* C2: after the injector or initializeMixin has returned and before any
\* call to enable or disable, the flag reads false and the class token is
\* absent from the class list the template yields (and from the rendered one).
C2_DefaultState ==
    \A v \in DOMAIN views :
        (Applied(views[v]) /\ ~views[v].toggled) =>
            /\ Flag(views[v]) = FALSE
            /\ ~Yields(views[v])
            /\ ~Shown(views[v])

C2_Witness ==
    \E v \in DOMAIN views :
        /\ Applied(views[v]) /\ ~views[v].toggled /\ views[v].rendered
        /\ Rules(views[v]) = 1

\* C3: applying the disabler to a view with a template leaves the class
\* list equal to the earlier list followed by the one binding rule, and
\* leaves the other attributes of the template alone.
C3_AppendsRule ==
    [][\A v \in DOMAIN views :
          ((Inject(v) \/ InitializeMixin(v)) /\ views[v].template.defined) =>
              /\ views'[v].template.class =
                     views[v].template.class \o <<BindingRule>>
              /\ views'[v].template.tabindex = views[v].template.tabindex
              /\ views'[v].template.defined]_vars

C3_Witness ==
    \E v \in DOMAIN views :
        views[v].template.class = <<Literal("a"), Literal("b"), BindingRule>>

Quiescent(view) == view.rendered /\ ~view.pending

\* C4: an injected view and a mixin-composed view with initializeMixin
\* called once, driven by the same calls, have the same control methods and
\* flag value, and once the render engine has nothing left to do both show
\* the class token iff the flag is true.
C4_StrategiesEquivalent ==
    (\A v \in ViewIds : v \in DOMAIN views /\ views[v].calls = 1 /\ views[v].failed = 0) =>
        /\ views["injected"].methods = views["mixed"].methods
        /\ Flag(views["injected"]) = Flag(views["mixed"])
        /\ (\A v \in ViewIds : Quiescent(views[v])) =>
              /\ views["injected"].dom = views["mixed"].dom
              /\ \A v \in ViewIds : Shown(views[v]) <=> Flag(views[v])

\* C5: the injector on a view without a template fails, and the failure is
\* the one of the extendTemplate call.
C5_BareViewFails ==
    [][\A v \in DOMAIN views :
          (Inject(v) /\ ~views[v].template.defined) =>
              /\ views'[v].thrown = "extendTemplate"
              /\ views'[v].failed = views[v].failed + 1]_vars

C5_Witness ==
    \E v \in DOMAIN views :
        /\ views[v].kind = "View" /\ ~views[v].template.defined
        /\ views[v].thrown = "extendTemplate" /\ views[v].failed = views[v].calls
        /\ views[v].calls > 0

\* A mixin-composed view on which initializeMixin was never called.
Uninitialized(view) == view.kind = "Mixin" /\ view.calls = 0

\* C6: a mixin-composed view on which initializeMixin is never called has
\* working control methods, no binding rule in its template, never the
\* class token in its class list, and no error.
C6_MissedInitialization ==
    /\ [](\A v \in DOMAIN views :
            Uninitialized(views[v]) =>
                /\ views[v].methods
                /\ Rules(views[v]) = 0
                /\ ~Yields(views[v])
                /\ ~Shown(views[v])
                /\ views[v].thrown = "none")
    /\ [][\A v \in DOMAIN views :
            Uninitialized(views[v]) =>
                /\ Disable(v) => Flag(views'[v]) = TRUE
                /\ Enable(v) => Flag(views'[v]) = FALSE]_vars

C6_Witness ==
    \E v \in DOMAIN views :
        /\ Uninitialized(views[v]) /\ views[v].rendered
        /\ Flag(views[v]) /\ ~Shown(views[v])

\* A plain view on which the injector has returned.
Bound(v) ==
    /\ v \in DOMAIN views
    /\ views[v].kind = "View"
    /\ Applied(views[v])

\* C7: on an injected view a flag write is read back at once and leaves the
\* rendered class list alone; the rendered list changes only in a pass of
\* the engine, which shows the token iff the flag last written is true; a
\* rendered view whose flag stays true eventually shows the token, one whose
\* flag stays false eventually does not.
C7_RenderFollowsFlag ==
    /\ [][\A v \in ViewIds : Bound(v) =>
            /\ Disable(v) => Flag(views'[v]) = TRUE /\ views'[v].dom = views[v].dom
            /\ Enable(v) => Flag(views'[v]) = FALSE /\ views'[v].dom = views[v].dom
            /\ views'[v].dom # views[v].dom => Render(v) \/ UpdatePass(v)
            /\ (Render(v) \/ UpdatePass(v)) =>
                   (Shown(views'[v]) <=> Flag(views[v]))]_vars
    /\ \A v \in ViewIds :
          /\ (Bound(v) /\ views[v].rendered /\ Flag(views[v]))
                ~> (Bound(v) /\ (Shown(views[v]) \/ ~Flag(views[v])))
          /\ (Bound(v) /\ views[v].rendered /\ ~Flag(views[v]))
                ~> (Bound(v) /\ (~Shown(views[v]) \/ Flag(views[v])))

C7_Witness ==
    /\ Bound("injected")
    /\ Quiescent(views["injected"])
    /\ views["injected"].toggled
    /\ Flag(views["injected"]) /\ Shown(views["injected"])

NeitherImagePlugin ==
    "ImageBlockEditing" \notin plugins /\ "ImageInlineEditing" \notin plugins

\* C8: each EasyImage.init emits the one warning
\* 'easy-image-image-feature-missing' with the editor as context when the
\* registry has neither image plugin, none otherwise, and changes nothing
\* else.
C8_WarnsIffNeither ==
    /\ [](/\ Len(warnings) = (IF NeitherImagePlugin THEN initCalls ELSE 0)
          /\ \A i \in 1..Len(warnings) :
                warnings[i] = [id |-> WarningId, context |-> "editor"])
    /\ [][EasyImageInit => UNCHANGED <<views, plugins>>]_vars

C8_Witness == NeitherImagePlugin /\ initCalls = 1 /\ Len(warnings) = 1

\* C9: k calls of the injector (or of initializeMixin) on a view with a
\* template raise no error and leave k binding rules in the class list;
\* each injection declares the flag anew and assigns the methods.
C9_RepeatedInjection ==
    /\ [](\A v \in DOMAIN views :
            views[v].template.defined =>
                Rules(views[v]) = views[v].calls - views[v].failed)
    /\ [][\A v \in DOMAIN views :
            ((Inject(v) \/ InitializeMixin(v)) /\ views[v].template.defined) =>
                /\ views'[v].thrown = "none"
                /\ views'[v].failed = views[v].failed
                /\ views'[v].methods
                /\ Inject(v) => (Flag(views'[v]) = FALSE
                                 /\ views'[v].declared = "observable")]_vars

C9_Witness ==
    \E v \in DOMAIN views :
        views[v].failed = 0 /\ views[v].calls >= 2 /\ Rules(views[v]) = views[v].calls

\* A plain view on which every injection so far failed for want of a template.
FailedInjection(view) ==
    view.kind = "View" /\ ~view.template.defined /\ view.failed > 0

\* C10: an injection that fails in extendTemplate leaves the flag declared
\* and false and the control methods assigned and working, with no binding
\* rule installed.
C10_NotAtomic ==
    /\ [](\A v \in DOMAIN views :
            FailedInjection(views[v]) =>
                /\ views[v].declared = "observable"
                /\ views[v].methods
                /\ Rules(views[v]) = 0)
    /\ [][\A v \in DOMAIN views :
            /\ (Inject(v) /\ ~views[v].template.defined) =>
                   Flag(views'[v]) = FALSE
            /\ FailedInjection(views[v]) =>
                   /\ Disable(v) => Flag(views'[v]) = TRUE
                   /\ Enable(v) => Flag(views'[v]) = FALSE]_vars

C10_Witness ==
    \E v \in DOMAIN views :
        FailedInjection(views[v]) /\ Flag(views[v]) /\ views[v].toggled

====
